---- MODULE Spec2Model ----
(***************************************************************************)
(* flask-io: decorators that fill a handler's keyword arguments from the   *)
(* request (body, cookies, form, headers, query string) and encode its     *)
(* return value by content negotiation.  Source: src/flask_io/io.py and    *)
(* src/flask_io/parsers.py.                                                 *)
(*                                                                         *)
(* A wrapper call is one action.  It records what the code did, in order,  *)
(* in `trace` (parser calls, default substitutions, validator calls, the   *)
(* assignment to kwargs, the handler invocation), the exception that left  *)
(* the wrapper in `exc`, and what the handler received in `received`.      *)
(***************************************************************************)
EXTENDS Naturals, Sequences, FiniteSets, TLC

VARIABLES
    decoders,         \* FlaskIO.__decoders : media type -> decoder function
    encoders,         \* FlaskIO.__encoders : media type -> encoder function
    parsers,          \* FlaskIO.__parsers  : type -> parser function
    default_decoder,  \* FlaskIO.default_decoder (None until the first register_decoder)
    default_encoder,  \* FlaskIO.default_encoder (None until the first register_encoder)
    first_decoder,    \* history: media type of the first register_decoder call
    first_encoder,    \* history: media type of the first register_encoder call
    last_reg,         \* history: the last register_* call [kind, key, func]
    nregs,            \* number of register_* calls made so far
    pc,               \* "idle" between calls, "done" after a wrapper call
    call,             \* the wrapper call: decorator arguments and the request parts it reads
    kwargs,           \* the keyword arguments after the wrapper's extraction
    trace,            \* what the wrapper did, in order
    exc,              \* the exception that left the wrapper (NoExc: it returned)
    received,         \* what the handler was invoked with
    response          \* what the wrapper returned

vars == <<decoders, encoders, parsers, default_decoder, default_encoder,
          first_decoder, first_encoder, last_reg, nregs,
          pc, call, kwargs, trace, exc, received, response>>

registries == <<decoders, encoders, parsers, default_decoder, default_encoder>>

history == <<first_decoder, first_encoder, last_reg, nregs>>

---------------------------------------------------------------------------
(* Bounds of the model. *)

\* Occurrences of one argument name in a request.
MaxOcc == 2

\* register_* calls made after construction.
MaxRegs == 3

---------------------------------------------------------------------------
(* Python values.  Every value is a record of one shape, so that any two   *)
(* can be compared: t is the Python type, n the number of an int, float or *)
(* bool (and the day of a datetime), s the characters of a str or bytes,   *)
(* items the elements of a list.                                           *)

None == "None"

Val(t, n, s) == [t |-> t, n |-> n, s |-> s, items |-> <<>>]

NoneVal == Val("none", 0, <<>>)

Int(n) == Val("int", n, <<>>)

Float(n) == Val("float", n, <<>>)

Bool(b) == Val("bool", IF b THEN 1 ELSE 0, <<>>)

Str(s) == Val("str", 0, s)

Bytes(s) == Val("bytes", 0, s)

DateTime(day) == Val("datetime", day, <<>>)

\* The object a decoder builds from a body.
Obj(s) == Val("obj", 0, s)

List(items) == [t |-> "list", n |-> 0, s |-> <<>>, items |-> items]

\* Python truthiness, as `if x:` and `not x` test it.
Truthy(v) ==
    CASE v.t = "none" -> FALSE
      [] v.t \in {"int", "float", "bool"} -> v.n # 0
      [] v.t \in {"str", "bytes"} -> v.s # <<>>
      [] v.t = "list" -> v.items # <<>>
      [] OTHER -> TRUE

---------------------------------------------------------------------------
(* Exceptions: the class, and ValidationError's reason and parameter name. *)

Exc(type, reason, name) == [type |-> type, reason |-> reason, name |-> name]

NoExc == Exc("none", "", "")

ValidationError(reason, name) == Exc("ValidationError", reason, name)

MediaTypeSupported == Exc("MediaTypeSupported", "", "")

FlaskIOError == Exc("FlaskIOError", "", "")

\* Any exception that is not one of the library's (ValueError, KeyError, ...).
OtherError == Exc("Exception", "", "")

\* The ValidationError a user's validator raises itself.
ValidatorsOwnError == ValidationError("custom_reason", "custom_name")

---------------------------------------------------------------------------
(* parsers.py *)

Digits == <<"0", "1", "2", "3", "4", "5", "6", "7", "8", "9">>

IsDigit(c) == \E i \in 1..10 : Digits[i] = c

DigitValue(c) == (CHOOSE i \in 1..10 : Digits[i] = c) - 1

RECURSIVE Number(_)
\* The number a string of digits denotes.
Number(s) ==
    IF s = <<>> THEN 0
    ELSE 10 * Number(SubSeq(s, 1, Len(s) - 1)) + DigitValue(s[Len(s)])

IsNumeral(s) == s # <<>> /\ \A i \in 1..Len(s) : IsDigit(s[i])

\* str.lower, on the letters the model uses.
LowerChar(c) ==
    CASE c = "T" -> "t"
      [] c = "Y" -> "y"
      [] OTHER -> c

Lower(s) == [i \in 1..Len(s) |-> LowerChar(s[i])]

\* What a parser call gives: the exception it raised, or its value.
Raised(e) == [exc |-> e, value |-> NoneVal]

Returned(v) == [exc |-> NoExc, value |-> v]

parse_bool(type_, value) ==
    Returned(Bool(Lower(value.s) \in
        {<<"y", "e", "s">>, <<"t", "r", "u", "e">>, <<"y">>, <<"t">>, <<"1">>}))

\* dateutil.parser.parse: of the strings the model uses it reads a numeral
\* from 1 to 31 as that day of the current month and rejects the others.
parse_datetime(type_, value) ==
    IF IsNumeral(value.s) /\ Number(value.s) \in 1..31
    THEN Returned(DateTime(Number(value.s)))
    ELSE Raised(OtherError)

\* type_(value) for int, float and str.
parse_primitive(type_, value) ==
    CASE type_ = "str" -> Returned(Str(value.s))
      [] type_ = "int" ->
            IF IsNumeral(value.s) THEN Returned(Int(Number(value.s)))
            ELSE Raised(OtherError)
      [] type_ = "float" ->
            IF IsNumeral(value.s) THEN Returned(Float(Number(value.s)))
            ELSE Raised(OtherError)
      [] OTHER -> Raised(OtherError)

\* Calling the registered parser function `parser`.
ApplyParser(parser, type_, value) ==
    CASE parser = "parse_bool" -> parse_bool(type_, value)
      [] parser = "parse_datetime" -> parse_datetime(type_, value)
      [] parser = "parse_primitive" -> parse_primitive(type_, value)
      [] OTHER -> Raised(OtherError)

\* register_default_parsers: the parsers a new FlaskIO has.
DefaultParsers ==
    [t \in {"bool", "int", "float", "str", "datetime"} |->
        CASE t = "bool" -> "parse_bool"
          [] t = "datetime" -> "parse_datetime"
          [] OTHER -> "parse_primitive"]

---------------------------------------------------------------------------
(* What the wrapper did: one event per call the code makes.                *)

Event(ev, name, val) == [ev |-> ev, name |-> name, val |-> val]

\* The number of events of kind ev in trace tr.
Count(tr, ev) == Cardinality({i \in 1..Len(tr) : tr[i].ev = ev})

\* The result of an extraction step: the exception raised (NoExc: none), the
\* value produced, and the calls made.
Step(e, v, tr) == [exc |-> e, value |-> v, trace |-> tr]

\* F(x), with x evaluated once (TLC evaluates a LET definition again at each
\* use).
Bind(x, F(_)) == CHOOSE y \in {F(v) : v \in {x}} : TRUE

---------------------------------------------------------------------------
(* The decorator arguments `default` and `validate`.                       *)

NoDefault == [kind |-> "none", val |-> NoneVal]

DefaultValue(v) == [kind |-> "value", val |-> v]

\* A callable default; val is what calling it returns.
DefaultCallable(v) == [kind |-> "callable", val |-> v]

\* `if default:` (a function object is truthy).
DefaultTruthy(default) ==
    CASE default.kind = "none" -> FALSE
      [] default.kind = "callable" -> TRUE
      [] OTHER -> Truthy(default.val)

\* The user's validator functions: what a call returns or raises.
Validators == {"accept", "reject", "raise_validation", "raise_other"}

CallValidator(validate) ==
    CASE validate = "accept" -> [exc |-> NoExc, success |-> TRUE]
      [] validate = "reject" -> [exc |-> NoExc, success |-> FALSE]
      [] validate = "raise_validation" -> [exc |-> ValidatorsOwnError, success |-> FALSE]
      [] OTHER -> [exc |-> OtherError, success |-> FALSE]

---------------------------------------------------------------------------
(* FlaskIO.__parse *)

\* Lines 204-208: the parser is called on a truthy raw value only; whatever
\* it raises becomes invalid_parameter.
ParseStep(parser, param_type, arg_name, arg_value) ==
    IF Truthy(arg_value)
    THEN LET r == ApplyParser(parser, param_type, arg_value)
             tr == <<Event("parser", arg_name, arg_value)>>
         IN  IF r.exc # NoExc
             THEN Step(ValidationError("invalid_parameter", arg_name), NoneVal, tr)
             ELSE Step(NoExc, r.value, tr)
    ELSE Step(NoExc, arg_value, <<>>)

\* The mutant of MissingStep: the default is substituted before `required`
\* is looked at.
MissingStepDefaultFirst(arg_name, arg_value, default, required) ==
    IF Truthy(arg_value) THEN Step(NoExc, arg_value, <<>>)
    ELSE IF DefaultTruthy(default)
         THEN Step(NoExc, default.val,
                   <<Event(IF default.kind = "callable" THEN "default_call" ELSE "default",
                           arg_name, default.val)>>)
         ELSE IF required
              THEN Step(ValidationError("required_parameter", arg_name), NoneVal, <<>>)
              ELSE Step(NoExc, arg_value, <<>>)

\* Lines 210-218: a falsy value is missing: required_parameter, or the
\* default (called when callable) if it is truthy.
MissingStep(arg_name, arg_value, default, required) ==
    IF Truthy(arg_value) THEN Step(NoExc, arg_value, <<>>)
    ELSE IF required
         THEN Step(ValidationError("required_parameter", arg_name), NoneVal, <<>>)
         ELSE IF DefaultTruthy(default)
              THEN Step(NoExc, default.val,
                        <<Event(IF default.kind = "callable" THEN "default_call" ELSE "default",
                                arg_name, default.val)>>)
              ELSE Step(NoExc, arg_value, <<>>)

\* The mutant of ValidateArg: an exception of the validator counts as success.
ValidateArgSwallows(validate, arg_name, arg_value) ==
    IF validate = None THEN Step(NoExc, arg_value, <<>>)
    ELSE LET r == CallValidator(validate)
             tr == <<Event("validate", arg_name, arg_value)>>
         IN  IF r.exc = NoExc /\ ~r.success
             THEN Step(ValidationError("invalid_parameter", arg_name), NoneVal, tr)
             ELSE Step(NoExc, arg_value, tr)

\* Lines 220-229: validate(arg_name, arg_value); its own ValidationError is
\* re-raised, any other exception and any falsy result is invalid_parameter.
ValidateArg(validate, arg_name, arg_value) ==
    IF validate = None THEN Step(NoExc, arg_value, <<>>)
    ELSE LET r == CallValidator(validate)
             tr == <<Event("validate", arg_name, arg_value)>>
         IN  IF r.exc # NoExc /\ r.exc.type = "ValidationError"
             THEN Step(r.exc, NoneVal, tr)
             ELSE IF r.exc # NoExc \/ ~r.success
                  THEN Step(ValidationError("invalid_parameter", arg_name), NoneVal, tr)
                  ELSE Step(NoExc, arg_value, tr)

\* __parse: parse, then the missing-value rule, then the validator.
Parse(parser, param_type, arg_name, arg_value, default, required, validate) ==
    Bind(ParseStep(parser, param_type, arg_name, arg_value), LAMBDA p :
        IF p.exc # NoExc THEN p
        ELSE Bind(MissingStep(arg_name, p.value, default, required), LAMBDA m :
            IF m.exc # NoExc THEN Step(m.exc, NoneVal, p.trace \o m.trace)
            ELSE Bind(ValidateArg(validate, arg_name, m.value), LAMBDA v :
                Step(v.exc, v.value, p.trace \o m.trace \o v.trace))))

---------------------------------------------------------------------------
(* The request's multi-dicts (cookies, form, headers, args): the pairs     *)
(* <<name, raw string>> in request order.                                  *)

\* MultiDict.getlist: every value of the name, in order.
GetList(args, name) ==
    LET hits == SelectSeq(args, LAMBDA kv : kv[1] = name)
    IN  [i \in 1..Len(hits) |-> Str(hits[i][2])]

\* MultiDict.get: the first value of the name, or None.
Get(args, name) ==
    LET all == GetList(args, name)
    IN  IF all = <<>> THEN NoneVal ELSE all[1]

\* The mutant of ArgValues: the `or [None]` is missing.
ArgValuesNoFallback(args, arg_name) == GetList(args, arg_name)

\* Line 193: args.getlist(arg_name) or [None].
ArgValues(args, arg_name) ==
    IF GetList(args, arg_name) # <<>> THEN GetList(args, arg_name) ELSE <<NoneVal>>

---------------------------------------------------------------------------
(* FlaskIO.__parse_into_param *)

\* Keyword arguments: a function from the names present to their values.
NoKwargs == [k \in {} |-> NoneVal]

\* The mutant of SetParam: the assignment replaces the whole dictionary.
SetParamOnly(params, param_name, value) == [k \in {param_name} |-> value]

\* params[param_name] = value
SetParam(params, param_name, value) ==
    [k \in DOMAIN params \cup {param_name} |->
        IF k = param_name THEN value ELSE params[k]]

\* dict.get on a registry: the function registered for key, or None.
Lookup(registry, key) == IF key \in DOMAIN registry THEN registry[key] ELSE None

RECURSIVE ParseEach(_, _, _, _, _, _, _)
\* Lines 194-196: __parse on each value in turn; the first exception ends
\* the loop.  value is the list built so far.
ParseEach(parser, param_type, arg_name, arg_values, default, required, validate) ==
    IF arg_values = <<>> THEN Step(NoExc, List(<<>>), <<>>)
    ELSE Bind(Parse(parser, param_type, arg_name, Head(arg_values),
                    default, required, validate), LAMBDA one :
        IF one.exc # NoExc THEN Step(one.exc, NoneVal, one.trace)
        ELSE Bind(ParseEach(parser, param_type, arg_name, Tail(arg_values),
                            default, required, validate), LAMBDA rest :
            IF rest.exc # NoExc
            THEN Step(rest.exc, NoneVal, one.trace \o rest.trace)
            ELSE Step(NoExc, List(<<one.value>> \o rest.value.items),
                      one.trace \o rest.trace)))

\* The result of an extraction: the exception raised, the keyword arguments
\* as the extraction leaves them, and the calls made.
Extraction(e, params, tr) == [exc |-> e, params |-> params, trace |-> tr]

ParseIntoParam(params, param_name, param_type, args, arg_name, default, required, multiple, validate) ==
    LET name == IF arg_name = None \/ arg_name = "" THEN param_name ELSE arg_name
        parser == Lookup(parsers, param_type)
    IN  IF parser = None THEN Extraction(FlaskIOError, params, <<>>)
        ELSE Bind(IF multiple
                  THEN ParseEach(parser, param_type, name, ArgValues(args, name),
                                 default, required, validate)
                  ELSE Parse(parser, param_type, name, Get(args, name),
                             default, required, validate), LAMBDA got :
            IF got.exc # NoExc THEN Extraction(got.exc, params, got.trace)
            ELSE Extraction(NoExc, SetParam(params, param_name, got.value),
                            got.trace \o <<Event("assign", param_name, got.value)>>))

---------------------------------------------------------------------------
(* FlaskIO.__decode and FlaskIO.__decode_into_param *)

RECURSIVE Before(_, _)
\* s.split(sep)[0]: the tokens of s before the first sep.
Before(s, sep) ==
    IF s = <<>> \/ Head(s) = sep THEN <<>> ELSE <<Head(s)>> \o Before(Tail(s), sep)

RECURSIVE After(_, _)
\* The tokens of s after the first sep (nothing when s has no sep).
After(s, sep) ==
    IF s = <<>> THEN <<>>
    ELSE IF Head(s) = sep THEN Tail(s) ELSE After(Tail(s), sep)

RECURSIVE Split(_, _)
\* s.split(sep): one piece more than s has separators.
Split(s, sep) ==
    IF \E i \in 1..Len(s) : s[i] = sep
    THEN <<Before(s, sep)>> \o Split(After(s, sep), sep)
    ELSE <<s>>

RECURSIVE Text(_)
\* The string a sequence of tokens spells.
Text(s) == IF s = <<>> THEN "" ELSE Head(s) \o Text(Tail(s))

\* bytes.decode(): UTF-8; the byte \xff is never valid.
BytesDecode(data) ==
    IF \E i \in 1..Len(data.s) : data.s[i] = "\\xff"
    THEN Raised(OtherError)
    ELSE Returned(Str(data.s))

\* The registered decoder functions: each reads its own format and raises
\* on anything else.
ApplyDecoder(decoder, data) ==
    CASE decoder = "json_decode" /\ data.s = <<"{", "}">> -> Returned(Obj(data.s))
      [] decoder = "xml_decode" /\ data.s = <<"<", ">">> -> Returned(Obj(data.s))
      [] OTHER -> Raised(OtherError)

\* __decode: the decoder of the Content-Type's media type, or of the default.
Decode(data, content_type) ==
    LET media_type == IF content_type # <<>> THEN Text(Split(content_type, ";")[1])
                      ELSE default_decoder
        decoder == Lookup(decoders, media_type)
    IN  IF decoder = None THEN Step(MediaTypeSupported, NoneVal, <<>>)
        ELSE LET r == ApplyDecoder(decoder, data)
             IN  Step(r.exc, r.value, <<Event("decoder", decoder, data)>>)

\* The mutant of DecodeStep: every exception becomes invalid_parameter.
DecodeStepTranslatesAll(param_type, data, content_type) ==
    LET r == IF param_type = "str"
             THEN LET d == BytesDecode(data) IN Step(d.exc, d.value, <<>>)
             ELSE Decode(data, content_type)
    IN  IF r.exc # NoExc
        THEN Step(ValidationError("invalid_parameter", "payload"), NoneVal, r.trace)
        ELSE r

\* Lines 103-111: data.decode() for str, __decode otherwise; MediaTypeSupported
\* is re-raised, any other exception becomes invalid_parameter.
DecodeStep(param_type, data, content_type) ==
    LET r == IF param_type = "str"
             THEN LET d == BytesDecode(data) IN Step(d.exc, d.value, <<>>)
             ELSE Decode(data, content_type)
    IN  IF r.exc # NoExc /\ r.exc.type # "MediaTypeSupported"
        THEN Step(ValidationError("invalid_parameter", "payload"), NoneVal, r.trace)
        ELSE r

\* Lines 113-122: validate(arg_value), as for an argument.
ValidatePayload(validate, arg_value) ==
    IF validate = None THEN Step(NoExc, arg_value, <<>>)
    ELSE LET r == CallValidator(validate)
             tr == <<Event("validate", "", arg_value)>>
         IN  IF r.exc # NoExc /\ r.exc.type = "ValidationError"
             THEN Step(r.exc, NoneVal, tr)
             ELSE IF r.exc # NoExc \/ ~r.success
                  THEN Step(ValidationError("invalid_parameter", "payload"), NoneVal, tr)
                  ELSE Step(NoExc, arg_value, tr)

DecodeIntoParam(params, param_name, param_type, required, validate, data, content_type) ==
    IF ~Truthy(data) /\ required
    THEN Extraction(ValidationError("required_parameter", "payload"), params, <<>>)
    ELSE Bind(DecodeStep(param_type, data, content_type), LAMBDA d :
        IF d.exc # NoExc THEN Extraction(d.exc, params, d.trace)
        ELSE Bind(ValidatePayload(validate, d.value), LAMBDA v :
            IF v.exc # NoExc THEN Extraction(v.exc, params, d.trace \o v.trace)
            ELSE Extraction(NoExc, SetParam(params, param_name, d.value),
                     d.trace \o v.trace \o <<Event("assign", param_name, d.value)>>)))

---------------------------------------------------------------------------
(* FlaskIO.__encode and FlaskIO.__encode_into_body *)

\* A status given beside the data: None, an int (status_code) or a str.
NoStatus == [kind |-> "none", n |-> 0, s |-> ""]

StatusCode(n) == [kind |-> "int", n |-> n, s |-> ""]

StatusLine(s) == [kind |-> "str", n |-> 0, s |-> s]

\* What a handler hands back as data: a plain value, or a flask Response.
Plain(v) ==
    [response |-> FALSE, body |-> v, mimetype |-> "", status |-> NoStatus, headers |-> <<>>]

\* Response(data_bytes, mimetype=media_type): status 200, no extra headers.
Response(data_bytes, media_type) ==
    [response |-> TRUE, body |-> data_bytes, mimetype |-> media_type,
     status |-> StatusCode(200), headers |-> <<>>]

\* A handler's return value: the data alone (len = 0), or a tuple of 1 to 3
\* elements (data, status, headers).
Ret(len, data, status, headers) ==
    [len |-> len, data |-> data, status |-> status, headers |-> headers]

\* The registered encoder functions: the bytes name the encoder and the data.
ApplyEncoder(encoder, data) == Bytes(<<encoder>> \o data.s)

RECURSIVE PickEncoderLast(_)
\* The mutant of PickEncoder: the loop does not break, the last entry with a
\* registered encoder wins.
PickEncoderLast(media_types) ==
    IF media_types = <<>> THEN 0
    ELSE IF Lookup(encoders, Text(Before(media_types[Len(media_types)], ";"))) # None
         THEN Len(media_types)
         ELSE PickEncoderLast(SubSeq(media_types, 1, Len(media_types) - 1))

RECURSIVE PickEncoder(_)
\* Lines 172-176: the index of the first entry whose media type (the text
\* before ';') has a registered encoder; 0 when there is none.
PickEncoder(media_types) ==
    IF media_types = <<>> THEN 0
    ELSE IF Lookup(encoders, Text(Before(Head(media_types), ";"))) # None THEN 1
         ELSE LET k == PickEncoder(Tail(media_types))
              IN  IF k = 0 THEN 0 ELSE k + 1

\* Lines 162-167: the media types to try.
AcceptedTypes(accept) ==
    IF accept = <<>> \/ \E i \in 1..Len(accept) : accept[i] = "*/*"
    THEN <<(<<default_encoder>>)>>
    ELSE Split(accept, ",")

\* __encode: (media_type, encoder(data)), or MediaTypeSupported.
Encode(data, accept) ==
    LET media_types == AcceptedTypes(accept)
        k == PickEncoder(media_types)
        media_type == Text(Before(media_types[k], ";"))
    IN  IF k = 0
        THEN [exc |-> MediaTypeSupported, media_type |-> "", bytes |-> NoneVal, trace |-> <<>>]
        ELSE [exc |-> NoExc, media_type |-> media_type,
              bytes |-> ApplyEncoder(encoders[media_type], data),
              trace |-> <<Event("encoder", encoders[media_type], data)>>]

\* What a wrapper hands back: nothing when an exception left it.
NoResponse == [returned |-> FALSE, value |-> Plain(NoneVal)]

Returns(d) == [returned |-> TRUE, value |-> d]

\* __encode_into_body: unpack a tuple, encode what is not yet a Response,
\* then set the status and add the headers.
EncodeIntoBody(ret, accept) ==
    LET status == IF ret.len >= 2 THEN ret.status ELSE NoStatus
        headers == IF ret.len >= 3 THEN ret.headers ELSE <<>>
        enc == Encode(ret.data.body, accept)
        data == IF ret.data.response THEN ret.data
                ELSE Response(enc.bytes, enc.media_type)
        withStatus == IF status.kind # "none" THEN [data EXCEPT !.status = status] ELSE data
        withHeaders == [withStatus EXCEPT !.headers = @ \o headers]
    IN  IF ~ret.data.response /\ enc.exc # NoExc
        THEN [exc |-> enc.exc, response |-> NoResponse, trace |-> <<>>]
        ELSE [exc |-> NoExc, response |-> Returns(withHeaders),
              trace |-> IF ret.data.response THEN <<>> ELSE enc.trace]

---------------------------------------------------------------------------
(* The wrappers *)

\* What the handler was invoked with.
NotCalled == [called |-> FALSE, args |-> <<>>, kwargs |-> NoKwargs]

CalledWith(args, kw) == [called |-> TRUE, args |-> args, kwargs |-> kw]

Outcome(e, tr, rcv, rsp) == [exc |-> e, trace |-> tr, received |-> rcv, response |-> rsp]

\* The mutant of Wrapper: the handler is invoked whatever the extraction did.
WrapperIgnoresError(ext, args, ret) ==
    Outcome(NoExc, ext.trace \o <<Event("handler", "", NoneVal)>>,
            CalledWith(args, ext.params), Returns(ret.data))

\* The wrapper of a from_* decorator (lines 47-49 and the like): the
\* extraction, then func(*args, **kwargs), whose value is returned.
Wrapper(ext, args, ret) ==
    IF ext.exc # NoExc THEN Outcome(ext.exc, ext.trace, NotCalled, NoResponse)
    ELSE Outcome(NoExc, ext.trace \o <<Event("handler", "", NoneVal)>>,
                 CalledWith(args, ext.params), Returns(ret.data))

\* The wrapper of render (lines 92-93): func(*args, **kwargs) first, its
\* value through __encode_into_body.
RenderWrapper(args, kw, ret, accept) ==
    Bind(EncodeIntoBody(ret, accept), LAMBDA body :
        Outcome(body.exc, <<Event("handler", "", NoneVal)>> \o body.trace,
                CalledWith(args, kw), body.response))

---------------------------------------------------------------------------
(* The registries: register_decoder, register_encoder, register_parser     *)

\* registry[key] = func
Put(registry, key, func) ==
    [k \in DOMAIN registry \cup {key} |-> IF k = key THEN func ELSE registry[k]]

EmptyRegistry == [k \in {} |-> None]

\* The mutant of NewDefault: every registration becomes the default.
NewDefaultLast(current, media_type) == media_type

\* Lines 32-33 and 37-38: the default is set while there is none.
NewDefault(current, media_type) ==
    IF current = None \/ current = "" THEN media_type ELSE current

MediaTypes == {"application/json", "text/xml"}

DecoderFuncs == {"json_decode", "xml_decode"}

EncoderFuncs == {"json_encode", "xml_encode"}

ParserFuncs == {"parse_bool", "parse_primitive"}

\* The types a parser is registered for in the model; "dict" has none
\* unless register_parser gives it one.
ParserTypes == {"int", "dict"}

\* register_default_decoders and register_default_encoders: a new FlaskIO
\* decodes and encodes JSON, under the media type application/json.
DefaultMediaType == "application/json"

DefaultDecoders == Put(EmptyRegistry, DefaultMediaType, "json_decode")

DefaultEncoders == Put(EmptyRegistry, DefaultMediaType, "json_encode")

NoReg == [kind |-> "none", key |-> "", func |-> "", replaced |-> FALSE]

Reg(kind, registry, key, func) ==
    [kind |-> kind, key |-> key, func |-> func,
     replaced |-> key \in DOMAIN registry /\ registry[key] # func]

register_decoder ==
    /\ pc = "idle"
    /\ nregs < MaxRegs
    /\ \E media_type \in MediaTypes, func \in DecoderFuncs :
          /\ default_decoder' = NewDefault(default_decoder, media_type)
          /\ decoders' = Put(decoders, media_type, func)
          /\ first_decoder' = IF first_decoder = None THEN media_type ELSE first_decoder
          /\ last_reg' = Reg("decoder", decoders, media_type, func)
    /\ nregs' = nregs + 1
    /\ UNCHANGED <<encoders, parsers, default_encoder, first_encoder,
                   pc, call, kwargs, trace, exc, received, response>>

register_encoder ==
    /\ pc = "idle"
    /\ nregs < MaxRegs
    /\ \E media_type \in MediaTypes, func \in EncoderFuncs :
          /\ default_encoder' = NewDefault(default_encoder, media_type)
          /\ encoders' = Put(encoders, media_type, func)
          /\ first_encoder' = IF first_encoder = None THEN media_type ELSE first_encoder
          /\ last_reg' = Reg("encoder", encoders, media_type, func)
    /\ nregs' = nregs + 1
    /\ UNCHANGED <<decoders, parsers, default_decoder, first_decoder,
                   pc, call, kwargs, trace, exc, received, response>>

register_parser ==
    /\ pc = "idle"
    /\ nregs < MaxRegs
    /\ \E type_ \in ParserTypes, func \in ParserFuncs :
          /\ parsers' = Put(parsers, type_, func)
          /\ last_reg' = Reg("parser", parsers, type_, func)
    /\ nregs' = nregs + 1
    /\ UNCHANGED <<decoders, encoders, default_decoder, default_encoder,
                   first_decoder, first_encoder,
                   pc, call, kwargs, trace, exc, received, response>>

---------------------------------------------------------------------------
(* The calls the model makes: decorator arguments and request parts.       *)

ParamName == "p"

ArgNames == {None, "a"}

\* Types asked of from_cookie, from_form, from_header, from_query.
ParamTypes == {"bool", "int", "float", "str", "dict"}

\* Types asked of from_body.
BodyTypes == {"str", "dict"}

Defaults == {NoDefault, DefaultValue(Int(5)), DefaultValue(Int(0)), DefaultCallable(Int(7))}

\* Raw argument strings: empty, "0", "1" and "T".
RawStrings == {<<>>, <<"0">>, <<"1">>, <<"T">>}

\* The values one name has in a request: up to MaxOcc of them.
OccLists == UNION {[1..n -> RawStrings] : n \in 0..MaxOcc}

\* A multi-dict of the request: the name "p" with the values l, in order,
\* and between them the name "a" with the same values in reverse order.
MultiDict(l) ==
    [i \in 1..2 * Len(l) |->
        IF i % 2 = 1 THEN <<"p", l[(i + 1) \div 2]>>
        ELSE <<"a", l[Len(l) + 1 - i \div 2]>>]

MultiDicts == {MultiDict(l) : l \in OccLists}

\* Request bodies: none, a JSON document, an XML document, broken JSON, and
\* bytes that are not UTF-8.
Bodies == {Bytes(<<>>), Bytes(<<"{", "}">>), Bytes(<<"<", ">">>), Bytes(<<"{">>),
           Bytes(<<"\\xff">>)}

\* Content-Type headers, as tokens.
ContentTypes ==
    {<<>>, <<"application/json">>, <<"application/json", ";", "charset=utf-8">>,
     <<"text/xml">>, <<"text/html">>, <<";", "charset=utf-8">>}

\* Accept headers, as tokens.
Accepts ==
    {<<>>, <<"*/*">>, <<"application/json">>, <<"text/xml">>, <<"text/html">>,
     <<"text/html", ",", "text/xml">>,
     <<"text/xml", ",", "application/json">>,
     <<"application/json", ";", "q=0.5", ",", "text/xml">>,
     <<"text/html", ",", "text/xml", ";", "q=0.9", ",", "application/json">>,
     <<"text/html", ",", " ", "application/json">>,
     <<"text/html", ";", "q=0.9", ",", "*/*", ";", "q=0.8">>,
     <<"text/html", ",", "image/png">>,
     <<",", "text/xml">>}

\* Handler return values.
Rets ==
    {Ret(0, Plain(Obj(<<"r">>)), NoStatus, <<>>),
     Ret(1, Plain(Obj(<<"r">>)), NoStatus, <<>>),
     Ret(2, Plain(Obj(<<"r">>)), StatusCode(201), <<>>),
     Ret(3, Plain(Obj(<<"r">>)), StatusLine("404 NOT FOUND"), <<"X-Trace">>),
     Ret(0, Response(Bytes(<<"ready">>), "text/plain"), NoStatus, <<>>),
     Ret(2, Response(Bytes(<<"ready">>), "text/plain"), StatusCode(202), <<>>)}

\* The positional and keyword arguments the wrapper is called with.
PosArgs == <<Str(<<"self">>)>>

KwargsIn == {[k \in {"other"} |-> Int(1)],
             [k \in {"other", "p"} |-> IF k = "p" THEN Str(<<"stale">>) ELSE Int(1)]}

\* The call as recorded: every field, with these values where a wrapper
\* does not read it.
NoCall ==
    [wrapper |-> "none", param_name |-> ParamName, param_type |-> "str",
     default |-> NoDefault, required |-> FALSE, multiple |-> FALSE, validate |-> None,
     arg_name |-> None, args |-> <<>>, data |-> Bytes(<<>>), content_type |-> <<>>,
     accept |-> <<>>, ret |-> Ret(0, Plain(NoneVal), NoStatus, <<>>),
     pos |-> PosArgs, kw |-> NoKwargs]

\* The state after a wrapper call with outcome w.
Done(c, ext, w) ==
    /\ pc' = "done"
    /\ call' = c
    /\ kwargs' = ext.params
    /\ trace' = w.trace
    /\ exc' = w.exc
    /\ received' = w.received
    /\ response' = w.response
    /\ UNCHANGED <<registries, history>>

\* A call of the wrapper that from_cookie, from_form, from_header or
\* from_query made; args is the multi-dict of the request it reads.
FromArgs(args) ==
    /\ pc = "idle"
    /\ \E param_type \in ParamTypes, default \in Defaults, required \in BOOLEAN,
          multiple \in BOOLEAN, validate \in {None} \cup Validators,
          arg_name \in ArgNames, kw \in KwargsIn :
          LET c == [NoCall EXCEPT !.wrapper = "from_args", !.param_type = param_type,
                        !.default = default, !.required = required,
                        !.multiple = multiple, !.validate = validate,
                        !.arg_name = arg_name, !.args = args, !.kw = kw,
                        !.ret = Ret(0, Plain(Obj(<<"r">>)), NoStatus, <<>>)]
              ext == ParseIntoParam(kw, ParamName, param_type, args, arg_name,
                                    default, required, multiple, validate)
          IN  \E e \in {ext} : \E w \in {Wrapper(e, PosArgs, c.ret)} : Done(c, e, w)

\* Line 57: the wrapper reads request.cookies.
from_cookie == \E cookies \in MultiDicts : FromArgs(cookies)

\* Line 66: the wrapper reads request.form.
from_form == \E form \in MultiDicts : FromArgs(form)

\* Line 75: the wrapper reads request.headers.
from_header == \E headers \in MultiDicts : FromArgs(headers)

\* Line 84: the wrapper reads request.args.
from_query == \E query \in MultiDicts : FromArgs(query)

from_body ==
    /\ pc = "idle"
    /\ \E param_type \in BodyTypes, required \in BOOLEAN,
          validate \in {None} \cup Validators, data \in Bodies,
          content_type \in ContentTypes, kw \in KwargsIn :
          LET c == [NoCall EXCEPT !.wrapper = "from_body", !.param_type = param_type,
                        !.required = required, !.validate = validate, !.data = data,
                        !.content_type = content_type, !.kw = kw,
                        !.ret = Ret(0, Plain(Obj(<<"r">>)), NoStatus, <<>>)]
              ext == DecodeIntoParam(kw, ParamName, param_type, required, validate,
                                     data, content_type)
          IN  \E e \in {ext} : \E w \in {Wrapper(e, PosArgs, c.ret)} : Done(c, e, w)

render ==
    /\ pc = "idle"
    /\ \E accept \in Accepts, ret \in Rets, kw \in KwargsIn :
          LET c == [NoCall EXCEPT !.wrapper = "render", !.accept = accept,
                        !.ret = ret, !.kw = kw]
          IN  \E w \in {RenderWrapper(PosArgs, kw, ret, accept)} :
                  Done(c, Extraction(NoExc, kw, <<>>), w)

\* The call is over; the next one may begin.
Return ==
    /\ pc = "done"
    /\ pc' = "idle"
    /\ call' = NoCall
    /\ kwargs' = NoKwargs
    /\ trace' = <<>>
    /\ exc' = NoExc
    /\ received' = NotCalled
    /\ response' = NoResponse
    /\ UNCHANGED <<registries, history>>

---------------------------------------------------------------------------
(* Specifications *)

NoRequest ==
    /\ pc = "idle"
    /\ call = NoCall
    /\ kwargs = NoKwargs
    /\ trace = <<>>
    /\ exc = NoExc
    /\ received = NotCalled
    /\ response = NoResponse

\* __init__, lines 17-19: the registries are empty, no default is set.
InitConfig ==
    /\ decoders = EmptyRegistry
    /\ encoders = EmptyRegistry
    /\ parsers = EmptyRegistry
    /\ default_decoder = None
    /\ default_encoder = None
    /\ first_decoder = None
    /\ first_encoder = None
    /\ last_reg = NoReg
    /\ nregs = 0
    /\ NoRequest

\* A FlaskIO after __init__ (lines 17-23): the default decoders, encoders
\* and parsers are registered, each by its register_* method.
Init ==
    /\ decoders = DefaultDecoders
    /\ encoders = DefaultEncoders
    /\ parsers = DefaultParsers
    /\ default_decoder = NewDefault(None, DefaultMediaType)
    /\ default_encoder = NewDefault(None, DefaultMediaType)
    /\ first_decoder = DefaultMediaType
    /\ first_encoder = DefaultMediaType
    /\ last_reg = NoReg
    /\ nregs = 0
    /\ NoRequest

\* Requests on a constructed instance.
Next ==
    \/ from_body
    \/ from_cookie
    \/ from_form
    \/ from_header
    \/ from_query
    \/ render
    \/ Return

Spec == Init /\ [][Next]_vars

\* Configuration: the register_* calls, from the empty registries on.
NextConfig ==
    \/ register_decoder
    \/ register_encoder
    \/ register_parser

SpecConfig == InitConfig /\ [][NextConfig]_vars

\* Bodies decoded under every decoder registry.
NextBody ==
    \/ register_decoder
    \/ from_body
    \/ Return

SpecBody == Init /\ [][NextBody]_vars

\* Responses rendered under every encoder registry.
NextRender ==
    \/ register_encoder
    \/ render
    \/ Return

SpecRender == Init /\ [][NextRender]_vars

---------------------------------------------------------------------------
(* Properties.  They speak of the state after a wrapper call (pc = "done"): *)
(* the call as made, and what the wrapper did.                              *)

\* A from_cookie, from_form, from_header or from_query call is over.
ArgsCallDone == pc = "done" /\ call.wrapper = "from_args"

\* A from_body call is over.
BodyCallDone == pc = "done" /\ call.wrapper = "from_body"

\* A render call is over.
RenderCallDone == pc = "done" /\ call.wrapper = "render"

\* The name the argument is looked up under, and named by in errors.
CallArgName == IF call.arg_name = None THEN call.param_name ELSE call.arg_name

\* The occurrences of the argument in the request, in request order.
Occurrences == GetList(call.args, CallArgName)

\* The first occurrence, None when there is none.
FirstRaw == IF Occurrences = <<>> THEN NoneVal ELSE Occurrences[1]

\* The argument is absent from the request, or the empty string.
AbsentOrEmpty == FirstRaw.t = "none" \/ FirstRaw.s = <<>>

\* param_type has a parser.
HasParser == call.param_type \in DOMAIN parsers

\* kwargs[param_name] was not assigned: the keyword arguments are those of
\* the call and no assignment was made.
NotAssigned == kwargs = call.kw /\ Count(trace, "assign") = 0

\* The media type __decode looks up for the call's Content-Type.
BodyMediaType ==
    IF call.content_type = <<>> THEN default_decoder
    ELSE Text(Before(call.content_type, ";"))

---------------------------------------------------------------------------
\* C1: a from_* wrapper invokes the handler at most once, and only after
\* kwargs[param_name] was assigned the extracted value; exactly once when
\* the extraction raises nothing, never when it raises (ValidationError,
\* MediaTypeSupported or FlaskIOError).
C1_HandlerOnceAfterAssign ==
    (ArgsCallDone \/ BodyCallDone) =>
        /\ Count(trace, "handler") <= 1
        /\ \A i \in 1..Len(trace) : trace[i].ev = "handler" =>
              /\ \E j \in 1..(i - 1) :
                    /\ trace[j].ev = "assign"
                    /\ trace[j].name = call.param_name
                    /\ kwargs[call.param_name] = trace[j].val
              /\ received.called
              /\ received.kwargs = kwargs
        /\ (exc = NoExc <=> Count(trace, "handler") = 1)
        /\ (exc # NoExc => ~received.called /\ ~response.returned)
        /\ exc.type \in {"none", "ValidationError", "MediaTypeSupported", "FlaskIOError"}
        /\ (exc.type = "FlaskIOError" <=> (ArgsCallDone /\ ~HasParser))

\* C1's case: an extraction that raised, and one whose handler ran.
C1_Witness ==
    /\ ArgsCallDone
    /\ call.multiple
    /\ Len(Occurrences) = 2
    /\ exc = NoExc
    /\ Count(trace, "handler") = 1
    /\ trace[Len(trace)].ev = "handler"

---------------------------------------------------------------------------
\* The entries of the call's Accept header: the text before ';' of each
\* comma-separated piece, in header order.
AcceptEntries ==
    LET pieces == Split(call.accept, ",")
    IN  [i \in 1..Len(pieces) |-> Text(Before(pieces[i], ";"))]

\* Accept is empty or contains '*/*'.
AcceptsAnything == call.accept = <<>> \/ \E i \in 1..Len(call.accept) : call.accept[i] = "*/*"

\* The response is data encoded by the encoder of media_type, with that
\* mimetype.
EncodedAs(media_type) ==
    /\ exc = NoExc
    /\ response.returned
    /\ response.value.response
    /\ response.value.body = ApplyEncoder(encoders[media_type], call.ret.data.body)
    /\ response.value.mimetype = media_type
    /\ Count(trace, "encoder") = 1

\* C2: content negotiation in render (the handler's data is not already a
\* Response): with Accept empty or containing '*/*' the data is encoded with
\* the default encoder; otherwise with the encoder of the first Accept entry
\* that has one, and the mimetype is that entry; with no such entry
\* MediaTypeSupported is raised and no Response is returned.
C2_Negotiation ==
    (RenderCallDone /\ ~call.ret.data.response) =>
        IF AcceptsAnything THEN EncodedAs(default_encoder)
        ELSE IF \E i \in 1..Len(AcceptEntries) : AcceptEntries[i] \in DOMAIN encoders
             THEN LET first == CHOOSE i \in 1..Len(AcceptEntries) :
                                  /\ AcceptEntries[i] \in DOMAIN encoders
                                  /\ \A j \in 1..(i - 1) : AcceptEntries[j] \notin DOMAIN encoders
                  IN  EncodedAs(AcceptEntries[first])
             ELSE /\ exc = MediaTypeSupported
                  /\ ~response.returned
                  /\ Count(trace, "encoder") = 0

\* C2's case: two listed entries have encoders, with different functions,
\* and the first one in the header is neither the default nor the last.
C2_Witness ==
    /\ RenderCallDone
    /\ ~call.ret.data.response
    /\ ~AcceptsAnything
    /\ Len(AcceptEntries) = 3
    /\ AcceptEntries[1] \notin DOMAIN encoders
    /\ AcceptEntries[2] \in DOMAIN encoders
    /\ AcceptEntries[3] \in DOMAIN encoders
    /\ encoders[AcceptEntries[2]] # encoders[AcceptEntries[3]]
    /\ AcceptEntries[2] # default_encoder
    /\ response.value.mimetype = AcceptEntries[2]

---------------------------------------------------------------------------
\* The decoder of the call's media type raised on the body.
DecoderRaised ==
    /\ BodyMediaType \in DOMAIN decoders
    /\ ApplyDecoder(decoders[BodyMediaType], call.data).exc # NoExc

\* C3 as stated: in from_body with a param_type other than str, a media type
\* without a registered decoder lets MediaTypeSupported reach the caller,
\* any other exception of the decoding becomes ValidationError
\* (invalid_parameter, 'payload'); either way nothing is assigned and the
\* handler is not invoked.
C3_AsStated ==
    (BodyCallDone /\ call.param_type # "str") =>
        /\ BodyMediaType \notin DOMAIN decoders =>
              exc = MediaTypeSupported /\ NotAssigned /\ ~received.called
        /\ (Count(trace, "decoder") = 1 /\ DecoderRaised) =>
              /\ exc = ValidationError("invalid_parameter", "payload")
              /\ NotAssigned
              /\ ~received.called

\* The body is empty and required=True: the check of line 100 raises.
RequiredBodyMissing == call.required /\ call.data.s = <<>>

\* C3, amended: the same when the body is not empty or required is False;
\* with required=True and an empty body required_parameter is raised before
\* the media type is looked at.
C3_Amended ==
    (BodyCallDone /\ call.param_type # "str") =>
        /\ (BodyMediaType \notin DOMAIN decoders /\ ~RequiredBodyMissing) =>
              exc = MediaTypeSupported /\ NotAssigned /\ ~received.called
        /\ (BodyMediaType \notin DOMAIN decoders /\ RequiredBodyMissing) =>
              /\ exc = ValidationError("required_parameter", "payload")
              /\ NotAssigned
              /\ ~received.called
        /\ (~RequiredBodyMissing /\ DecoderRaised) =>
              /\ Count(trace, "decoder") = 1
              /\ exc = ValidationError("invalid_parameter", "payload")
              /\ NotAssigned
              /\ ~received.called
        /\ exc.type = "MediaTypeSupported" =>
              BodyMediaType \notin DOMAIN decoders

\* C3's case: a body is there, its media type (parameters cut off) has no
\* decoder, and MediaTypeSupported came out.
C3_Witness ==
    /\ BodyCallDone
    /\ call.param_type # "str"
    /\ call.required
    /\ call.data.s # <<>>
    /\ call.validate # None
    /\ Cardinality(DOMAIN decoders) = 2
    /\ BodyMediaType = ""
    /\ exc = MediaTypeSupported

---------------------------------------------------------------------------
\* What a register_decoder or register_encoder step does to its registry
\* and default: the entry of the key is the function passed, every other
\* entry is as before, and a default that was set stays.
Registered(kind, registry, registryAfter, default, defaultAfter) ==
    (last_reg'.kind = kind /\ nregs' = nregs + 1) =>
        /\ DOMAIN registryAfter = DOMAIN registry \cup {last_reg'.key}
        /\ registryAfter[last_reg'.key] = last_reg'.func
        /\ \A k \in DOMAIN registry \ {last_reg'.key} : registryAfter[k] = registry[k]
        /\ default # None => defaultAfter = default

\* After the first registration the default is the media type of the first
\* call, and has an entry.
DefaultIsFirst(first, default, registry) ==
    first # None => default = first /\ default \in DOMAIN registry

\* C4: after any sequence of register_encoder (register_decoder) calls the
\* default is the media type of the first such call and a key of the
\* registry; later registrations never change it; registering a media type
\* again replaces its function and leaves every other entry unchanged.
C4_DefaultIsFirstRegistered ==
    [][/\ DefaultIsFirst(first_encoder', default_encoder', encoders')
       /\ DefaultIsFirst(first_decoder', default_decoder', decoders')
       /\ Registered("encoder", encoders, encoders', default_encoder, default_encoder')
       /\ Registered("decoder", decoders, decoders', default_decoder, default_decoder')
       /\ last_reg'.kind # "encoder" => encoders' = encoders /\ default_encoder' = default_encoder
       /\ last_reg'.kind # "decoder" => decoders' = decoders /\ default_decoder' = default_decoder
      ]_vars

\* C4's case: the third registration of encoders replaced the function of a
\* media type that is not the first one registered, and the default is still
\* the first.
C4_Witness ==
    /\ nregs = 3
    /\ last_reg.kind = "encoder"
    /\ last_reg.replaced
    /\ last_reg.key # first_encoder
    /\ default_encoder = first_encoder
    /\ Cardinality(DOMAIN encoders) = 2
    /\ encoders[last_reg.key] = last_reg.func

---------------------------------------------------------------------------
\* The wrapper raised required_parameter for `name` and called nothing.
RequiredRaised(name) ==
    /\ exc = ValidationError("required_parameter", name)
    /\ trace = <<>>
    /\ NotAssigned
    /\ ~received.called

\* C5 as stated: with required=True an absent or empty value always yields
\* ValidationError(required_parameter), named 'payload' for the body and
\* arg_name otherwise; no decoder, parser or validator is called and the
\* default is not used.
C5_AsStated ==
    /\ (BodyCallDone /\ call.required /\ call.data.s = <<>>) => RequiredRaised("payload")
    /\ (ArgsCallDone /\ call.required /\ AbsentOrEmpty) => RequiredRaised(CallArgName)

\* C5, amended: the same for from_body, and for the other wrappers when
\* param_type has a registered parser; when it has none FlaskIOError is
\* raised before the value is looked at.
C5_Amended ==
    /\ (BodyCallDone /\ call.required /\ call.data.s = <<>>) => RequiredRaised("payload")
    /\ (ArgsCallDone /\ call.required /\ AbsentOrEmpty /\ HasParser) =>
          RequiredRaised(CallArgName)
    /\ (ArgsCallDone /\ call.required /\ AbsentOrEmpty /\ ~HasParser) =>
          exc = FlaskIOError /\ trace = <<>> /\ NotAssigned /\ ~received.called

\* C5's case: the argument is there but empty, a default and a validator
\* are given, and required_parameter came out under the arg_name.
C5_Witness ==
    /\ ArgsCallDone
    /\ call.required
    /\ HasParser
    /\ Occurrences # <<>>
    /\ AbsentOrEmpty
    /\ call.default.kind = "callable"
    /\ call.validate = "accept"
    /\ call.arg_name # None
    /\ exc = ValidationError("required_parameter", call.arg_name)

---------------------------------------------------------------------------
\* The parser's result on raw value v.
Parsed(v) == ApplyParser(parsers[call.param_type], call.param_type, v)

\* The raw values the call uses: every occurrence with multiple=True, the
\* first otherwise.
Used ==
    IF call.multiple \/ Occurrences = <<>> THEN Occurrences ELSE <<Occurrences[1]>>

\* Every raw value used is present, non-empty and parses without error.
AllParse ==
    /\ Used # <<>>
    /\ \A i \in 1..Len(Used) : Used[i].s # <<>> /\ Parsed(Used[i]).exc = NoExc

\* C6: a present, non-empty argument whose parser returns reaches the
\* handler as exactly parser(param_type, raw); the default is not
\* substituted for it and it is not rejected as missing, whatever the parsed
\* value is (0, 0.0 and False included).
C6_ParsedValueIsKept ==
    (ArgsCallDone /\ HasParser /\ AllParse) =>
        /\ exc.reason # "required_parameter"
        /\ Count(trace, "default") = 0
        /\ Count(trace, "default_call") = 0
        /\ received.called =>
              IF call.multiple
              THEN received.kwargs[call.param_name] =
                      List([i \in 1..Len(Used) |-> Parsed(Used[i]).value])
              ELSE received.kwargs[call.param_name] = Parsed(Used[1]).value

---------------------------------------------------------------------------
\* The positions of the validator calls in the trace, in order.
ValidateCalls == SelectSeq([i \in 1..Len(trace) |-> i], LAMBDA i : trace[i].ev = "validate")

\* The values the call produced: the elements of the list with
\* multiple=True, the value otherwise.
Produced ==
    IF ArgsCallDone /\ call.multiple THEN kwargs[call.param_name].items
    ELSE <<kwargs[call.param_name]>>

\* The value a successful extraction step before position i left: the
\* default substituted, the parser's or the decoder's result, or the raw
\* value when nothing was called for it.
ValueBefore(i) ==
    IF i > 1 /\ trace[i - 1].ev \in {"default", "default_call"} THEN trace[i - 1].val
    ELSE IF i > 1 /\ trace[i - 1].ev = "parser" THEN Parsed(trace[i - 1].val).value
    ELSE IF i > 1 /\ trace[i - 1].ev = "decoder"
         THEN ApplyDecoder(trace[i - 1].name, trace[i - 1].val).value
    ELSE trace[i].val

\* C7: a validator is called exactly once per value, after parsing and
\* default substitution, with (arg_name, value) for an argument and (value)
\* for the body, also for an absent argument that is not required; the value
\* reaches the handler only if the validator returned a truthy result; a
\* falsy result or an exception other than ValidationError gives
\* ValidationError(invalid_parameter), the validator's own ValidationError
\* comes out unchanged.  (For a param_type that has a parser: without one no
\* value is produced.)
C7_ValidatorOncePerValue ==
    (BodyCallDone \/ (ArgsCallDone /\ HasParser)) =>
        LET name == IF BodyCallDone THEN "payload" ELSE CallArgName
            r == CallValidator(call.validate)
            n == Len(ValidateCalls)
        IN  /\ call.validate = None => n = 0
            /\ call.validate # None =>
                  /\ \A k \in 1..n :
                        LET i == ValidateCalls[k]
                        IN  /\ trace[i].name = IF BodyCallDone THEN "" ELSE CallArgName
                            /\ trace[i].val = ValueBefore(i)
                            /\ i < Len(trace) => trace[i + 1].ev # "parser" \/ call.multiple
                  /\ exc = NoExc =>
                        /\ n = Len(Produced)
                        /\ \A k \in 1..n : trace[ValidateCalls[k]].val = Produced[k]
                        /\ r.exc = NoExc /\ r.success
                  /\ received.called => (r.exc = NoExc /\ r.success /\ n >= 1)
                  /\ (n >= 1 /\ r.exc = NoExc /\ ~r.success) =>
                        n = 1 /\ exc = ValidationError("invalid_parameter", name)
                  /\ (n >= 1 /\ r.exc # NoExc /\ r.exc.type # "ValidationError") =>
                        n = 1 /\ exc = ValidationError("invalid_parameter", name)
                  /\ (n >= 1 /\ r.exc.type = "ValidationError") =>
                        n = 1 /\ exc = r.exc
                  /\ (n >= 1 /\ exc # NoExc /\ r.exc = NoExc /\ r.success) =>
                        call.multiple /\ n < Len(Occurrences)
                  /\ (ArgsCallDone /\ AbsentOrEmpty /\ ~call.required) =>
                        /\ n >= 1
                        /\ trace[ValidateCalls[1]].val =
                              IF DefaultTruthy(call.default) THEN call.default.val
                              ELSE FirstRaw

\* C7's case: the argument is absent and not required, the default was
\* substituted, the validator was called on it and raised an exception that
\* is not a ValidationError.
C7_Witness ==
    /\ ArgsCallDone
    /\ HasParser
    /\ Occurrences = <<>>
    /\ ~call.required
    /\ call.default.kind = "value"
    /\ call.validate = "raise_other"
    /\ Len(ValidateCalls) = 1
    /\ trace[ValidateCalls[1]].val = call.default.val
    /\ exc = ValidationError("invalid_parameter", CallArgName)

---------------------------------------------------------------------------
\* The raw values __parse is given with multiple=True: the occurrences, or
\* the one missing value when there is none.
Given == IF Occurrences = <<>> THEN <<NoneVal>> ELSE Occurrences

\* __parse on raw value v under the call's decorator arguments.
Element(v) ==
    Parse(parsers[call.param_type], call.param_type, CallArgName, v,
          call.default, call.required, call.validate)

RECURSIVE Elements(_)
\* __parse on each of the raw values vs, one result per value.
Elements(vs) ==
    IF vs = <<>> THEN <<>> ELSE <<Element(Head(vs))>> \o Elements(Tail(vs))

\* The larger of two numbers.
Max(a, b) == IF a >= b THEN a ELSE b

---------------------------------------------------------------------------
\* The keyword arguments kw2 differ from kw1 at most in the key name.
SameExcept(kw1, kw2, name) ==
    /\ DOMAIN kw1 \ {name} = DOMAIN kw2 \ {name}
    /\ \A k \in DOMAIN kw1 \ {name} : kw2[k] = kw1[k]

\* C9: a call of a from_* or render wrapper, successful or failing, leaves
\* the registries and the defaults unchanged; a from_* wrapper changes
\* nothing in the call's arguments but kwargs[param_name], a render wrapper
\* nothing at all: the handler receives the positional arguments and every
\* other keyword argument as passed.
C9_RequestsChangeNothingElse ==
    [][(pc = "idle" /\ pc' = "done") =>
          /\ registries' = registries
          /\ SameExcept(call'.kw, kwargs', call'.param_name)
          /\ exc' # NoExc => kwargs' = call'.kw
          /\ call'.wrapper = "render" => kwargs' = call'.kw /\ received'.called
          /\ received'.called =>
                /\ received'.args = call'.pos
                /\ received'.kwargs = kwargs'
                /\ call'.wrapper # "render" => call'.param_name \in DOMAIN received'.kwargs
      ]_vars

\* C9's case: a from_* call that was given a stale kwargs[param_name] and
\* another keyword argument; the handler got the new value and the other
\* argument as passed.
C9_Witness ==
    /\ ArgsCallDone
    /\ DOMAIN call.kw = {"other", "p"}
    /\ received.called
    /\ received.kwargs["p"] # call.kw["p"]
    /\ received.kwargs["other"] = call.kw["other"]
    /\ received.args = call.pos

====
